---- MODULE Spec2Model ----
(***************************************************************************)
(* Model of the quarterly financial dashboard (src/dashboard/dash_app.py): *)
(* the memoized parquet loader load_parquets, the create_dash call that    *)
(* binds its result to df_all, and the Dash callbacks _toggle_theme,       *)
(* _update and _swap_css.                                                  *)
(***************************************************************************)
EXTENDS Integers, Sequences, FiniteSets, TLC

\* ---------------------------------------------------------------- bounds
NThreads == 2       \* threads of the host runtime that may call create_dash
MaxFiles == 2       \* partition files that can exist under DATA_DIR
MaxReads == 3       \* enumerations of DATA_DIR that are followed

Threads == 1..NThreads

\* ------------------------------------------------------------- constants
None == 0                   \* an empty cache slot / an unbound df_all (table ids start at 1)
MsPerDay == 86400000        \* period_end_date is stored in epoch milliseconds
HalfDay == MsPerDay \div 2

LIGHT_THEME == "LUX"
DARK_THEME  == "CYBORG"

KnownMetrics == <<"revenue", "gross_profit", "profit_before_tax", "net_income_parent">>

\* ------------------------------------------------------------ data model
\* A cell of the period_end_date column: the stored integer, or the value
\* pd.to_datetime makes of it.
Int64(ms) == [dtype |-> "int64", value |-> ms]

Row(c, ms, rev, gp, pbt, ni) ==
    [company_name |-> c, period_end_date |-> Int64(ms), revenue |-> rev,
     gross_profit |-> gp, profit_before_tax |-> pbt, net_income_parent |-> ni]

\* The rows of partition file f.  Files are written out-of-band and are never
\* modified by the program.
Content(f) ==
    CASE f = 1 -> << Row("Acme", 2 * MsPerDay, 1234567, 400, 300, -1500),
                     Row("Acme", 1 * MsPerDay, 100, 40, 30, 20) >>
      [] f = 2 -> << Row("Beta", MsPerDay + HalfDay, 999, 99, 9, 1),
                     Row("Acme", 2 * MsPerDay, 7000, 70, 7, 5) >>
      [] f = 3 -> << Row("Acme", 0, 150, 50, 35, 25) >>
      [] OTHER -> << Row("Beta", (f % 3) * MsPerDay, 1000 * f, 10 * f, f, -f) >>

\* A DataFrame: its rows, and (as provenance only) the files they came from.
read_parquet(f) == [rows |-> Content(f), src |-> <<f>>]

EmptyFrame == [rows |-> <<>>, src |-> <<>>]

\* DATA_DIR.glob yields the files in an arbitrary order.
Orderings(S) ==
    {s \in [1..Cardinality(S) -> S] : \A i, j \in DOMAIN s : i # j => s[i] # s[j]}

RECURSIVE concat(_)
concat(dfs) ==
    IF dfs = <<>> THEN EmptyFrame
    ELSE LET rest == concat(Tail(dfs))
         IN [rows |-> Head(dfs).rows \o rest.rows, src |-> Head(dfs).src \o rest.src]

to_datetime(cell) == [dtype |-> "datetime64", value |-> cell.value]

\* Variant: the frame is returned without normalising period_end_date.
assign_without_conversion(df) == df

assign_period_end_date(df) ==
    [df EXCEPT !.rows =
        [i \in DOMAIN df.rows |->
            [df.rows[i] EXCEPT !.period_end_date = to_datetime(@)]]]

\* Variant: a wrapper that never stores the result.
lru_store_dropped(slot, id) == slot

\* functools.lru_cache(maxsize=1) on a function of no arguments: after the
\* wrapped call returns, the result is stored unless the key is already there.
lru_store(slot, id) == IF slot = None THEN id ELSE slot

\* ------------------------------------------------------------------ state
VARIABLES
    dir,        \* the partition files present under DATA_DIR
    cache,      \* lru_cache slot of load_parquets: None or a table id
    heap,       \* heap[id]: the DataFrame object with that id
    pc,         \* pc[t]: where thread t is inside create_dash/load_parquets
    dfs,        \* dfs[t]: the list of frames thread t read
    tmp,        \* tmp[t]: the intermediate concat result of thread t
    df_all,     \* df_all[t]: the table create_dash bound for thread t
    exc,        \* exc[t]: how thread t's last create_dash call ended
    reads,      \* number of enumerations of DATA_DIR so far
    theme_store,            \* data of the dcc.Store "theme-store"
    external_stylesheets,   \* app._external_stylesheets
    out         \* inputs and outputs of the last _update callback

vars == <<dir, cache, heap, pc, dfs, tmp, df_all, exc, reads, theme_store,
          external_stylesheets, out>>

loaderVars == <<cache, heap, pc, dfs, tmp, df_all, exc, reads>>
themeVars  == <<theme_store, external_stylesheets>>

NoOutput ==
    [status |-> "none", df |-> None, company |-> "", start |-> 0, end |-> 0,
     metrics |-> <<>>, chart_rows |-> <<>>, table_rows |-> <<>>, kpis |-> <<>>,
     template |-> "", style_header |-> [backgroundColor |-> "", color |-> ""],
     style_data |-> [backgroundColor |-> "", color |-> ""]]

Init ==
    /\ dir \in SUBSET (1..MaxFiles)
    /\ cache = None
    /\ heap = <<>>
    /\ pc = [t \in Threads |-> "idle"]
    /\ dfs = [t \in Threads |-> <<>>]
    /\ tmp = [t \in Threads |-> EmptyFrame]
    /\ df_all = [t \in Threads |-> None]
    /\ exc = [t \in Threads |-> "none"]
    /\ reads = 0
    /\ theme_store = [dark |-> FALSE]
    /\ external_stylesheets = <<LIGHT_THEME>>
    /\ out = NoOutput

\* ----------------------------------------------------------------- loader
\* The environment drops a new partition file into DATA_DIR.
AddFile(f) ==
    /\ f \notin dir
    /\ dir' = dir \cup {f}
    /\ UNCHANGED <<loaderVars, themeVars, out>>

\* create_dash calls load_parquets and the lru_cache wrapper finds the entry.
load_parquets_hit(t) ==
    /\ pc[t] = "idle"
    /\ cache # None
    /\ df_all' = [df_all EXCEPT ![t] = cache]
    /\ exc' = [exc EXCEPT ![t] = "ok"]
    /\ UNCHANGED <<dir, cache, heap, pc, dfs, tmp, reads, themeVars, out>>

\* The wrapper misses and runs the function body: the list comprehension
\* enumerates DATA_DIR and reads every file it yields.
load_parquets_miss(t) ==
    /\ pc[t] = "idle"
    /\ cache = None
    /\ reads < MaxReads
    /\ \E order \in Orderings(dir) :
          dfs' = [dfs EXCEPT ![t] = [i \in DOMAIN order |-> read_parquet(order[i])]]
    /\ reads' = reads + 1
    /\ pc' = [pc EXCEPT ![t] = "check"]
    /\ UNCHANGED <<dir, cache, heap, tmp, df_all, exc, themeVars, out>>

\* Variant: the failure is memoized in the cache slot.
raise_and_memoize(t) ==
    /\ pc[t] = "check"
    /\ dfs[t] = <<>>
    /\ cache' = lru_store(cache, -1)
    /\ pc' = [pc EXCEPT ![t] = "idle"]
    /\ exc' = [exc EXCEPT ![t] = "FileNotFoundError"]
    /\ UNCHANGED <<dir, heap, dfs, tmp, df_all, reads, themeVars, out>>

\* Variant: no emptiness check; an empty table is built, cached and returned.
return_empty_table(t) ==
    /\ pc[t] = "check"
    /\ dfs[t] = <<>>
    /\ heap' = Append(heap, EmptyFrame)
    /\ cache' = lru_store(cache, Len(heap) + 1)
    /\ df_all' = [df_all EXCEPT ![t] = Len(heap) + 1]
    /\ exc' = [exc EXCEPT ![t] = "ok"]
    /\ pc' = [pc EXCEPT ![t] = "idle"]
    /\ UNCHANGED <<dir, dfs, tmp, reads, themeVars, out>>

\* `if not dfs: raise FileNotFoundError`: the exception leaves load_parquets
\* and create_dash; lru_cache stores nothing for a call that raised.
raise_FileNotFoundError(t) ==
    /\ pc[t] = "check"
    /\ dfs[t] = <<>>
    /\ pc' = [pc EXCEPT ![t] = "idle"]
    /\ exc' = [exc EXCEPT ![t] = "FileNotFoundError"]
    /\ UNCHANGED <<dir, cache, heap, dfs, tmp, df_all, reads, themeVars, out>>

\* pd.concat(dfs, ignore_index=True): a new, not yet normalised frame.
pd_concat(t) ==
    /\ pc[t] = "check"
    /\ dfs[t] # <<>>
    /\ tmp' = [tmp EXCEPT ![t] = concat(dfs[t])]
    /\ dfs' = [dfs EXCEPT ![t] = <<>>]
    /\ pc' = [pc EXCEPT ![t] = "assign"]
    /\ UNCHANGED <<dir, cache, heap, df_all, exc, reads, themeVars, out>>

\* .assign(period_end_date=...) builds the table that load_parquets returns;
\* the wrapper stores it and create_dash binds it to df_all.
assign_and_return(t) ==
    /\ pc[t] = "assign"
    /\ heap' = Append(heap, assign_period_end_date(tmp[t]))
    /\ cache' = lru_store(cache, Len(heap) + 1)
    /\ df_all' = [df_all EXCEPT ![t] = Len(heap) + 1]
    /\ exc' = [exc EXCEPT ![t] = "ok"]
    /\ tmp' = [tmp EXCEPT ![t] = EmptyFrame]
    /\ pc' = [pc EXCEPT ![t] = "idle"]
    /\ UNCHANGED <<dir, dfs, reads, themeVars, out>>

\* ------------------------------------------------------------------ query
Companies == {"Acme", "Beta", "Zeta"}     \* "Zeta" has no row in any file
MetricChoices == {<<"revenue">>, KnownMetrics}

Range(s) == {s[i] : i \in DOMAIN s}

\* The date picker offers the days between the earliest and the latest
\* period_end_date of the data (min_date_allowed, max_date_allowed).
DataDays ==
    {r.period_end_date.value \div MsPerDay :
        r \in UNION {Range(Content(f)) : f \in 1..MaxFiles}}

Days ==
    (CHOOSE d \in DataDays : \A e \in DataDays : d <= e) ..
    (CHOOSE d \in DataDays : \A e \in DataDays : e <= d)

\* A date string of the picker, as pandas parses it for the comparison.
Timestamp(day) == [dtype |-> "datetime64", value |-> day * MsPerDay]

\* Variant: the end bound is exclusive.
query_exclusive_end(rows, company, start, end) ==
    SelectSeq(rows, LAMBDA r :
        /\ r.company_name = company
        /\ Timestamp(start).value <= r.period_end_date.value
        /\ r.period_end_date.value < Timestamp(end).value)

\* df_all.query("company_name == @company and @start <= period_end_date <= @end")
query(rows, company, start, end) ==
    SelectSeq(rows, LAMBDA r :
        /\ r.company_name = company
        /\ Timestamp(start).value <= r.period_end_date.value
        /\ r.period_end_date.value <= Timestamp(end).value)

\* px.line(dff, x="period_end_date", y=metrics): the traces take the points in
\* the order of the frame's rows.
px_line(dff, metrics) ==
    [i \in DOMAIN dff |->
        [c \in {"period_end_date"} \cup Range(metrics) |-> dff[i][c]]]

\* Variant: descending order.
sort_values_descending(dff) ==
    {[i \in DOMAIN dff |-> dff[p[i]]] : p \in
        {q \in Orderings(DOMAIN dff) :
            \A i, j \in DOMAIN dff :
                i < j => dff[q[i]].period_end_date.value >= dff[q[j]].period_end_date.value}}

\* dff.sort_values("period_end_date"): ascending; the default sort is not
\* stable, so equal dates may come out in any order.
sort_values(dff) ==
    {[i \in DOMAIN dff |-> dff[p[i]]] : p \in
        {q \in Orderings(DOMAIN dff) :
            \A i, j \in DOMAIN dff :
                i < j => dff[q[i]].period_end_date.value <= dff[q[j]].period_end_date.value}}

to_dict_records(dff) == dff

Digits == <<"0", "1", "2", "3", "4", "5", "6", "7", "8", "9">>

RECURSIVE Str(_)
Str(n) == IF n < 10 THEN Digits[n + 1] ELSE Str(n \div 10) \o Digits[(n % 10) + 1]

Pad3(n) == Digits[(n \div 100) + 1] \o Digits[((n \div 10) % 10) + 1] \o Digits[(n % 10) + 1]

RECURSIVE Group(_)
Group(n) == IF n < 1000 THEN Str(n) ELSE Group(n \div 1000) \o "," \o Pad3(n % 1000)

\* f"{x:,.0f}"
format_thousands(x) == IF x < 0 THEN "-" \o Group(-x) ELSE Group(x)

kpi_card(title, value) == [title |-> title, value |-> value]

style_header_of(is_dark) ==
    IF is_dark THEN [backgroundColor |-> "rgb(30, 30, 30)", color |-> "white"]
    ELSE [backgroundColor |-> "rgb(230, 230, 230)", color |-> "#212529"]

style_data_of(is_dark) ==
    IF is_dark THEN [backgroundColor |-> "rgb(50, 50, 50)", color |-> "white"]
    ELSE [backgroundColor |-> "white", color |-> "#212529"]

Inputs(t, company, start, end, metrics) ==
    [NoOutput EXCEPT !.df = df_all[t], !.company = company, !.start = start,
                     !.end = end, !.metrics = metrics]

\* Variant: the filter is applied to df_all in place.
_update_inplace(t, company, start, end, metrics) ==
    /\ df_all[t] # None
    /\ heap' = [heap EXCEPT ![df_all[t]].rows = query(@, company, start, end)]
    /\ out' = [Inputs(t, company, start, end, metrics) EXCEPT !.status = "ok"]
    /\ UNCHANGED <<dir, cache, pc, dfs, tmp, df_all, exc, reads, themeVars>>

\* The _update callback of the app thread t created.
_update(t, company, start, end, metrics) ==
    /\ df_all[t] # None
    /\ LET dff == query(heap[df_all[t]].rows, company, start, end)
           fig == px_line(dff, metrics)
       IN IF dff = <<>>
          THEN \* .iloc[-1] on an empty frame raises IndexError
               out' = [Inputs(t, company, start, end, metrics) EXCEPT !.status = "IndexError"]
          ELSE \E sorted \in sort_values(dff) :
                 LET latest == sorted[Len(sorted)]
                 IN out' = [Inputs(t, company, start, end, metrics) EXCEPT
                       !.status = "ok",
                       !.chart_rows = fig,
                       !.template = IF theme_store.dark THEN "plotly_dark" ELSE "plotly_white",
                       !.table_rows = to_dict_records(dff),
                       !.kpis = << kpi_card("Revenue (Rs '000)", format_thousands(latest.revenue)),
                                   kpi_card("Gross Profit", format_thousands(latest.gross_profit)),
                                   kpi_card("Net Income", format_thousands(latest.net_income_parent)) >>,
                       !.style_header = style_header_of(theme_store.dark),
                       !.style_data = style_data_of(theme_store.dark)]
    /\ UNCHANGED <<dir, loaderVars, themeVars>>

\* ------------------------------------------------------------------ theme
_toggle_theme(is_dark) ==
    /\ theme_store' = [dark |-> is_dark]
    /\ UNCHANGED <<dir, loaderVars, external_stylesheets, out>>

_swap_css ==
    /\ external_stylesheets' = << IF theme_store.dark THEN DARK_THEME ELSE LIGHT_THEME >>
    /\ UNCHANGED <<dir, loaderVars, theme_store, out>>

\* ------------------------------------------------------------------ specs
\* run_dash.py and handler.py call create_dash from a single thread: a call
\* starts only when no other call is inside load_parquets.
load_parquets_miss_seq(t) ==
    /\ \A u \in Threads : pc[u] = "idle"
    /\ load_parquets_miss(t)

\* The dashboard starts only over a DATA_DIR that holds data.
InitApp ==
    /\ Init
    /\ dir # {}

\* The application as it is run: create_dash calls one at a time, then callbacks.
Next ==
    \/ \E f \in 1..MaxFiles : AddFile(f)
    \/ \E t \in Threads : load_parquets_hit(t)
    \/ \E t \in Threads : load_parquets_miss_seq(t)
    \/ \E t \in Threads : pd_concat(t)
    \/ \E t \in Threads : assign_and_return(t)
    \/ \E t \in Threads, company \in Companies, start \in Days, end \in Days,
          metrics \in MetricChoices : _update(t, company, start, end, metrics)
    \/ \E is_dark \in BOOLEAN : _toggle_theme(is_dark)
    \/ _swap_css

Spec == InitApp /\ [][Next]_vars

\* The loader alone, called by concurrent threads over any DATA_DIR.
NextLoad ==
    \/ \E f \in 1..MaxFiles : AddFile(f)
    \/ \E t \in Threads : load_parquets_hit(t)
    \/ \E t \in Threads : load_parquets_miss(t)
    \/ \E t \in Threads : raise_FileNotFoundError(t)
    \/ \E t \in Threads : pd_concat(t)
    \/ \E t \in Threads : assign_and_return(t)

SpecLoad == Init /\ [][NextLoad]_vars

\* ----------------------------------------------------------- properties
\* The table the last _update ran on, and whether one of its rows is selected
\* by the inputs of that call.
QueriedRows == heap[out.df].rows

Selected(r) ==
    /\ r.company_name = out.company
    /\ out.start * MsPerDay <= r.period_end_date.value
    /\ r.period_end_date.value <= out.end * MsPerDay

\* Number of selected rows among the first i rows of the queried table.
SelectedUpTo(i) == Cardinality({j \in 1..i : Selected(QueriedRows[j])})

RECURSIVE RowsBefore(_, _)
RowsBefore(src, j) == IF j <= 1 THEN 0 ELSE RowsBefore(src, j - 1) + Len(Content(src[j - 1]))

\* df holds every row of every file it was read from, in order, with
\* period_end_date converted and every other column untouched.
FullyBuilt(df) ==
    /\ df.src # <<>>
    /\ \A i, j \in DOMAIN df.src : i # j => df.src[i] # df.src[j]
    /\ Len(df.rows) = RowsBefore(df.src, Len(df.src) + 1)
    /\ \A j \in DOMAIN df.src : \A k \in DOMAIN Content(df.src[j]) :
          LET r   == df.rows[RowsBefore(df.src, j) + k]
              raw == Content(df.src[j])[k]
          IN /\ r.period_end_date = [dtype |-> "datetime64", value |-> raw.period_end_date.value]
             /\ \A c \in (DOMAIN raw) \ {"period_end_date"} : r[c] = raw[c]

\* C1: with data present and calls made one after the other, DATA_DIR is
\* enumerated at most once, one table is built, and every caller that has a
\* table holds the one cached object.
C1_LoadOnce ==
    /\ reads <= 1
    /\ Len(heap) <= 1
    /\ \A t \in Threads : df_all[t] # None => (cache # None /\ df_all[t] = cache)

C1_Witness ==
    /\ \A t \in Threads : df_all[t] # None /\ exc[t] = "ok"
    /\ reads = 1

\* C2: concurrent first callers cause exactly one load: the table is never
\* built more than once.
C2_SingleBuild == Len(heap) <= 1

\* C3: the cache, and every caller's table, is a fully built table: all files
\* that were enumerated concatenated, every period_end_date converted.
C3_OnlyFullTables ==
    /\ cache # None => (cache \in DOMAIN heap /\ FullyBuilt(heap[cache]))
    /\ \A t \in Threads :
          df_all[t] # None => (df_all[t] \in DOMAIN heap /\ FullyBuilt(heap[df_all[t]]))

C3_Witness ==
    /\ cache # None
    /\ Len(heap[cache].src) >= 2
    /\ \E t \in Threads : pc[t] = "assign" /\ tmp[t].rows # <<>>

\* C4: a call that found no partition file ends in FileNotFoundError and
\* yields no table; no table without files is ever built.
C4_NotFoundOnEmpty ==
    [][ /\ \A id \in DOMAIN heap' : heap'[id].src # <<>> /\ heap'[id].rows # <<>>
        /\ \A t \in Threads :
              (pc[t] = "check" /\ dfs[t] = <<>> /\ pc'[t] # pc[t]) =>
                  /\ exc'[t] = "FileNotFoundError"
                  /\ df_all'[t] = df_all[t]
                  /\ heap' = heap ]_vars

C4_Witness == \E t \in Threads : exc[t] = "FileNotFoundError" /\ df_all[t] = None

\* C5: a query that selects no row ends in the recoverable EmptySelection
\* result, not in a failure of the latest-row lookup.
C5_EmptySelection ==
    (out.status # "none" /\ SelectedUpTo(Len(QueriedRows)) = 0) => out.status = "EmptySelection"

\* C6: table_rows holds exactly the rows of the table with the company and a
\* period_end_date within the inclusive bounds, all columns, in table order.
C6_FilterCorrect ==
    out.status # "none" =>
        /\ Len(out.table_rows) = SelectedUpTo(Len(QueriedRows))
        /\ \A i \in DOMAIN QueriedRows :
              Selected(QueriedRows[i]) => out.table_rows[SelectedUpTo(i)] = QueriedRows[i]

C6_Witness ==
    /\ out.status = "ok"
    /\ \E i \in DOMAIN QueriedRows : QueriedRows[i].company_name # out.company
    /\ \E i \in DOMAIN QueriedRows :
          /\ QueriedRows[i].company_name = out.company
          /\ ~Selected(QueriedRows[i])
    /\ \E i \in DOMAIN QueriedRows :
          QueriedRows[i].period_end_date.value = out.end * MsPerDay /\ Selected(QueriedRows[i])
    /\ Len(out.table_rows) >= 2

\* C7: the rows handed to the line chart are non-decreasing by period_end_date.
C7_ChartSorted ==
    out.status = "ok" =>
        \A i, j \in DOMAIN out.chart_rows :
            i < j => out.chart_rows[i].period_end_date.value <= out.chart_rows[j].period_end_date.value

\* C8: the three KPI values come from one selected row whose period_end_date
\* is the maximum among the selected rows.
C8_KpiLatest ==
    out.status = "ok" =>
        \E i \in DOMAIN QueriedRows :
            /\ Selected(QueriedRows[i])
            /\ \A j \in DOMAIN QueriedRows :
                  Selected(QueriedRows[j]) =>
                      QueriedRows[j].period_end_date.value <= QueriedRows[i].period_end_date.value
            /\ out.kpis[1].value = format_thousands(QueriedRows[i].revenue)
            /\ out.kpis[2].value = format_thousands(QueriedRows[i].gross_profit)
            /\ out.kpis[3].value = format_thousands(QueriedRows[i].net_income_parent)

C8_Witness ==
    /\ out.status = "ok"
    /\ Len(out.table_rows) >= 2
    /\ \E i \in DOMAIN QueriedRows : ~Selected(QueriedRows[i])
    /\ out.table_rows[1].period_end_date.value > out.table_rows[2].period_end_date.value
    /\ out.kpis[1].value = "1,234,567"
    /\ out.kpis[2].value = "400"
    /\ out.kpis[3].value = "-1,500"

\* C9: no step changes a table once it has been built: queries, failed
\* queries and theme callbacks leave its rows, their order and values alone.
C9_TableUnchanged ==
    [][ \A id \in DOMAIN heap : id \in DOMAIN heap' /\ heap'[id] = heap[id] ]_vars

C9_Witness ==
    /\ out.status = "IndexError"
    /\ out.df \in DOMAIN heap
    /\ theme_store.dark
    /\ external_stylesheets = <<DARK_THEME>>

\* C10: a call that raised FileNotFoundError leaves the cache as it was, a
\* call that finds the cache empty enumerates DATA_DIR again, and a call that
\* then builds a table caches and returns it.
C10_FailureNotMemoized ==
    [][ /\ cache' # None => cache' \in DOMAIN heap'
        /\ \A t \in Threads :
              /\ (pc[t] = "check" /\ dfs[t] = <<>> /\ pc'[t] = "idle") =>
                     (cache' = cache /\ exc'[t] = "FileNotFoundError")
              /\ (pc[t] = "idle" /\ pc'[t] # "idle") =>
                     /\ cache = None
                     /\ reads' = reads + 1
                     /\ Len(dfs'[t]) = Cardinality(dir)
                     /\ {dfs'[t][i].src[1] : i \in DOMAIN dfs'[t]} = dir
              /\ (pc[t] = "assign" /\ pc'[t] = "idle" /\ cache = None) =>
                     (cache' = df_all'[t] /\ FullyBuilt(heap'[cache'])) ]_vars

C10_Witness ==
    /\ \E t \in Threads : exc[t] = "FileNotFoundError"
    /\ cache # None
    /\ reads >= 2

====
